---------------------------- MODULE Spec2Model ----------------------------
(* A model of the WDBC table reader (src/dbc_reader.py), of the format      *)
(* parser it relies on (src/format_parser.py) and of the query tool built   *)
(* on both (src/server.py).                                                 *)
(*                                                                          *)
(* Bytes are integers 0..255 and a byte string is a sequence of them.       *)
(* Python's None as an attribute value is the empty option <<>>, a present  *)
(* value x is <<x>>.  A decoded field value is a tagged record              *)
(* [t |-> type, v |-> payload], the payload always being a sequence so that *)
(* two values of different Python types can still be compared.              *)
EXTENDS Integers, Sequences, FiniteSets, TLC

VARIABLES
    path_exists,    \* Path.exists() of self.dbc_path
    file,           \* the bytes of the file at self.dbc_path
    format_string,  \* self.format_string (a sequence of one-character strings)
    reader,         \* the WDBCReader's attributes set by __init__ and read()
    outcome,        \* how the last read() ended
    call,           \* the last operation called and its arguments
    result,         \* what that operation returned
    dbcfmt,         \* the declarations of the file at FormatParser.dbcfmt_path
    formats,        \* FormatParser.formats
    dbc_cache,      \* DBCQueryMCP.dbc_cache
    stdin,          \* the lines sys.stdin.readline() has not yet returned
    stdout,         \* the lines written to sys.stdout
    pc              \* where DBCQueryMCP.run stands

vars ==
    <<path_exists, file, format_string, reader, outcome, call, result,
      dbcfmt, formats, dbc_cache, stdin, stdout, pc>>

-----------------------------------------------------------------------------
(* Bounds of the model. *)

MaxFields == 2      \* longest format string drawn
MaxRecords == 2     \* largest record_count written into a header
MaxStr == 3         \* longest string table drawn
MaxDecls == 2       \* most declarations in a format header file
MaxFmt == 3         \* longest format string of the tables decoded

-----------------------------------------------------------------------------
(* Generic helpers. *)

Min(a, b) == IF a <= b THEN a ELSE b

Max(a, b) == IF a >= b THEN a ELSE b

\* All sequences over S of length 0..n.
SeqsUpTo(S, n) == UNION {[1..k -> S] : k \in 0..n}

\* Python's b[lo:hi] for 0 <= lo: the bytes at 0-based positions lo..hi-1
\* that exist.
Slice(b, lo, hi) == SubSeq(b, lo + 1, Min(hi, Len(b)))

RECURSIVE Flatten(_)
Flatten(ss) == IF ss = <<>> THEN <<>> ELSE Head(ss) \o Flatten(Tail(ss))

-----------------------------------------------------------------------------
(* Python values held in a record. *)

NoneV == [t |-> "None", v |-> <<>>]

IntV(n) == [t |-> "int", v |-> <<n>>]

\* A float unpacked by '<f', kept as the four bytes it was decoded from
\* (little-endian: w[4] holds the sign and the high exponent bits).
FloatV(w) == [t |-> "float", v |-> w]

\* A str, kept as its sequence of code points.
StrV(cps) == [t |-> "str", v |-> cps]

Pow2(n) == 2 ^ n

FloatSign(w) == w[4] \div 128

FloatExp(w) == (w[4] % 128) * 2 + w[3] \div 128

FloatMant(w) == (w[3] % 128) * 65536 + w[2] * 256 + w[1]

FloatIsNaN(w) == FloatExp(w) = 255 /\ FloatMant(w) # 0

FloatIsZero(w) == FloatExp(w) = 0 /\ FloatMant(w) = 0

\* float == float in Python (IEEE 754): a NaN equals nothing, the two zeros
\* are equal, every other value equals only itself.
FloatEq(a, b) ==
    /\ ~FloatIsNaN(a)
    /\ ~FloatIsNaN(b)
    /\ \/ a = b
       \/ FloatIsZero(a) /\ FloatIsZero(b)

\* float == int in Python: the exact numeric values are compared.  A normal
\* float of exponent e and mantissa m is (2^23 + m) * 2^(e - 150); a
\* subnormal one is below 1 in magnitude.  n is below 2^31 in magnitude.
FloatEqInt(w, n) ==
    LET e == FloatExp(w)
        m == FloatMant(w)
        mag == IF n < 0 THEN -n ELSE n
        sig == Pow2(23) + m
    IN  IF e = 255 THEN FALSE
        ELSE IF e = 0 THEN m = 0 /\ n = 0
        ELSE /\ n # 0
             /\ (FloatSign(w) = 1) = (n < 0)
             /\ IF e >= 150
                THEN e - 150 <= 7 /\ sig * Pow2(e - 150) = mag
                ELSE /\ 150 - e <= 23
                     /\ sig % Pow2(150 - e) = 0
                     /\ sig \div Pow2(150 - e) = mag

\* 0 <= x < n in Python for the float x of bytes w and an int n, 0 <= n < 2^31:
\* false for a NaN, true for both zeros when n > 0; floor(x) < n otherwise.
FloatInRange(w, n) ==
    LET e == FloatExp(w)
        sig == Pow2(23) + FloatMant(w)
    IN  IF e = 255 THEN FALSE
        ELSE IF e = 0 THEN (FloatMant(w) = 0 \/ FloatSign(w) = 0) /\ n >= 1
        ELSE IF FloatSign(w) = 1 THEN FALSE
        ELSE IF e >= 150 THEN e - 150 <= 7 /\ sig * Pow2(e - 150) < n
        ELSE IF 150 - e > 23 THEN n >= 1
        ELSE sig \div Pow2(150 - e) < n

\* x < n in Python for the float x of bytes w and an int n, 0 <= n < 2^31.
FloatLtInt(w, n) ==
    /\ ~FloatIsNaN(w)
    /\ IF FloatSign(w) = 1 /\ ~FloatIsZero(w) THEN TRUE ELSE FloatInRange(w, n)

\* x > n in Python for the float x of bytes w and an int n, 0 <= n < 2^31.
FloatGtInt(w, n) == ~FloatIsNaN(w) /\ ~FloatLtInt(w, n) /\ ~FloatEqInt(w, n)

\* a == b in Python for the value types a record or a filter can hold.
PyEq(a, b) ==
    CASE a.t = "int" /\ b.t = "int" -> a.v = b.v
      [] a.t = "float" /\ b.t = "float" -> FloatEq(a.v, b.v)
      [] a.t = "float" /\ b.t = "int" -> FloatEqInt(a.v, b.v[1])
      [] a.t = "int" /\ b.t = "float" -> FloatEqInt(b.v, a.v[1])
      [] a.t = "str" /\ b.t = "str" -> a.v = b.v
      [] a.t = "None" /\ b.t = "None" -> TRUE
      [] OTHER -> FALSE

\* dict.get(k): the value under k, None when the dict has no key k.
Get(record, k) == IF k \in DOMAIN record THEN record[k] ELSE NoneV

\* The empty dict.
EmptyDict == [k \in {} |-> NoneV]

\* d[k] = v on a dict.
DictSet(d, k, v) == [j \in DOMAIN d \cup {k} |-> IF j = k THEN v ELSE d[j]]

-----------------------------------------------------------------------------
(* struct and bytes.decode, as the reader uses them. *)

\* struct.unpack('<I', w)[0] of four bytes.  TLC's integers are 32-bit
\* signed, so the inputs drawn keep the top byte below 128.
unpack_I(w) == w[1] + 256 * w[2] + 65536 * w[3] + 16777216 * w[4]

\* As CanUnpack, but the last byte of the buffer cannot be read.
CanUnpackBeforeEnd(buf, off, n) == off >= 0 /\ off + n < Len(buf)

\* Whether struct.unpack_from can read n bytes of buf at 0-based offset off;
\* it raises struct.error when it cannot.
CanUnpack(buf, off, n) == off >= 0 /\ off + n <= Len(buf)

IsCont(b) == 128 <= b /\ b <= 191

\* One step of the strict UTF-8 decoder at 1-based position i of b: the
\* number of bytes of the sequence starting there (0: not decodable) and its
\* code point.
Utf8Step(b, i) ==
    LET n == Len(b)
        b1 == b[i]
        b2 == IF i + 1 <= n THEN b[i + 1] ELSE 0
        b3 == IF i + 2 <= n THEN b[i + 2] ELSE 0
        b4 == IF i + 3 <= n THEN b[i + 3] ELSE 0
        bad == [n |-> 0, cp |-> 0]
    IN  IF b1 < 128 THEN [n |-> 1, cp |-> b1]
        ELSE IF 194 <= b1 /\ b1 <= 223
        THEN IF IsCont(b2) THEN [n |-> 2, cp |-> (b1 - 192) * 64 + (b2 - 128)]
             ELSE bad
        ELSE IF 224 <= b1 /\ b1 <= 239
        THEN IF /\ IsCont(b2)
                /\ IsCont(b3)
                /\ (b1 = 224 => b2 >= 160)
                /\ (b1 = 237 => b2 <= 159)
             THEN [n |-> 3,
                   cp |-> (b1 - 224) * 4096 + (b2 - 128) * 64 + (b3 - 128)]
             ELSE bad
        ELSE IF 240 <= b1 /\ b1 <= 244
        THEN IF /\ IsCont(b2)
                /\ IsCont(b3)
                /\ IsCont(b4)
                /\ (b1 = 240 => b2 >= 144)
                /\ (b1 = 244 => b2 <= 143)
             THEN [n |-> 4,
                   cp |-> (b1 - 240) * 262144 + (b2 - 128) * 4096
                          + (b3 - 128) * 64 + (b4 - 128)]
             ELSE bad
        ELSE bad

\* bytes.decode('utf-8') from position i on: [ok |-> FALSE] is
\* UnicodeDecodeError, otherwise s is the decoded text.
RECURSIVE decode_utf8(_, _)
decode_utf8(b, i) ==
    IF i > Len(b) THEN [ok |-> TRUE, s |-> <<>>]
    ELSE LET st == Utf8Step(b, i)
         IN  IF st.n = 0 THEN [ok |-> FALSE, s |-> <<>>]
             ELSE LET rest == decode_utf8(b, i + st.n)
                  IN  [ok |-> rest.ok, s |-> <<st.cp>> \o rest.s]

\* bytes.decode('latin-1', errors='ignore'): every byte is the code point of
\* the same number; no byte is undecodable.
decode_latin1(b) == [ok |-> TRUE, s |-> [i \in 1..Len(b) |-> b[i]]]

-----------------------------------------------------------------------------
(* WDBCReader._read_string *)

\* The while loop looking for the null terminator: end is a 0-based index.
RECURSIVE FindEnd(_, _)
FindEnd(string_table, end) ==
    IF end < Len(string_table) /\ string_table[end + 1] # 0
    THEN FindEnd(string_table, end + 1)
    ELSE end

\* As decode_fallback, with a codec that has no character for the bytes from
\* 128 on.
decode_fallback_ascii(b) ==
    IF \A i \in 1..Len(b) : b[i] < 128
    THEN [ok |-> TRUE, s |-> b]
    ELSE [ok |-> FALSE, s |-> <<>>]

\* The except branch: decode failures fall back to latin-1.
decode_fallback(b) == decode_latin1(b)

\* [ok |-> FALSE] is an exception leaving the method.
read_string(string_table, offset) ==
    IF offset >= Len(string_table) THEN [ok |-> TRUE, s |-> <<>>]
    ELSE LET end == FindEnd(string_table, offset)
             bytes == Slice(string_table, offset, end)
             u == decode_utf8(bytes, 1)
         IN  IF u.ok THEN u ELSE decode_fallback(bytes)

-----------------------------------------------------------------------------
(* WDBCReader._parse_record and _parse_records *)

\* The for loop over enumerate(self.format_string) from 1-based position i
\* on (field_idx = i - 1).  [ok |-> FALSE] is an exception raised by
\* struct.unpack_from; a character no branch names changes nothing.
RECURSIVE ParseFields(_, _, _, _, _, _)
ParseFields(data, string_table, fmt, i, field_offset, record) ==
    IF i > Len(fmt) THEN [ok |-> TRUE, record |-> record]
    ELSE
      LET c == fmt[i]
          w4 == Slice(data, field_offset, field_offset + 4)
          w1 == Slice(data, field_offset, field_offset + 1)
          raise == [ok |-> FALSE, record |-> record]
      IN  IF c \in {"i", "n", "d", "l"}
          THEN IF CanUnpack(data, field_offset, 4)
               THEN ParseFields(data, string_table, fmt, i + 1, field_offset + 4,
                                DictSet(record, i - 1, IntV(unpack_I(w4))))
               ELSE raise
          ELSE IF c = "f"
          THEN IF CanUnpack(data, field_offset, 4)
               THEN ParseFields(data, string_table, fmt, i + 1, field_offset + 4,
                                DictSet(record, i - 1, FloatV(w4)))
               ELSE raise
          ELSE IF c = "s"
          THEN IF CanUnpack(data, field_offset, 4)
               THEN LET str == read_string(string_table, unpack_I(w4))
                    IN  IF str.ok
                        THEN ParseFields(data, string_table, fmt, i + 1,
                                         field_offset + 4,
                                         DictSet(record, i - 1, StrV(str.s)))
                        ELSE raise
               ELSE raise
          ELSE IF c = "b"
          THEN IF CanUnpack(data, field_offset, 1)
               THEN ParseFields(data, string_table, fmt, i + 1, field_offset + 1,
                                DictSet(record, i - 1, IntV(w1[1])))
               ELSE raise
          ELSE IF c = "x"
          THEN ParseFields(data, string_table, fmt, i + 1, field_offset + 4,
                           DictSet(record, i - 1, NoneV))
          ELSE IF c = "X"
          THEN ParseFields(data, string_table, fmt, i + 1, field_offset + 1,
                           DictSet(record, i - 1, NoneV))
          ELSE ParseFields(data, string_table, fmt, i + 1, field_offset, record)

\* As parse_record, but the cursor starts at the head of the data section.
parse_record_from_head(data, string_table, fmt, offset) ==
    ParseFields(data, string_table, fmt, 1, 0, EmptyDict)

parse_record(data, string_table, fmt, offset) ==
    ParseFields(data, string_table, fmt, 1, offset, EmptyDict)

\* As parse_records, but the offset never grows: every row is decoded from
\* the head of the data section.
parse_records_first_row(data, string_table, fmt, record_count, record_size) ==
    LET row == [i \in 0..(record_count - 1) |->
                   parse_record(data, string_table, fmt, 0)]
        raising == {i \in 0..(record_count - 1) : ~row[i].ok}
        done == IF raising = {} THEN record_count
                ELSE CHOOSE i \in raising : \A j \in raising : i <= j
    IN  [ok |-> raising = {},
         records |-> [i \in 1..done |-> row[i - 1].record]]

\* The for loop over range(self.record_count), as a whole so that a table
\* may hold a thousand rows: row i (from 0) is decoded at offset
\* i * record_size, the offset having grown by record_size with every row.
\* When a row raises, the rows appended before it stay in self.records.
parse_records(data, string_table, fmt, record_count, record_size) ==
    LET row == [i \in 0..(record_count - 1) |->
                   parse_record(data, string_table, fmt, i * record_size)]
        raising == {i \in 0..(record_count - 1) : ~row[i].ok}
        done == IF raising = {} THEN record_count
                ELSE CHOOSE i \in raising : \A j \in raising : i <= j
    IN  [ok |-> raising = {},
         records |-> [i \in 1..done |-> row[i - 1].record]]

-----------------------------------------------------------------------------
(* FormatParser.get_field_count and get_record_size *)

get_field_count(fmt) == Len(fmt)

\* The for loop over the characters from 1-based position i on; a character
\* neither branch names adds nothing.
RECURSIVE SizeLoop(_, _, _)
SizeLoop(fmt, i, size) ==
    IF i > Len(fmt) THEN size
    ELSE IF fmt[i] \in {"i", "f", "s", "n", "d", "l", "x"}
    THEN SizeLoop(fmt, i + 1, size + 4)
    ELSE IF fmt[i] \in {"b", "X"}
    THEN SizeLoop(fmt, i + 1, size + 1)
    ELSE SizeLoop(fmt, i + 1, size)

\* As get_record_size, every field taken for four bytes wide.
get_record_size_words(fmt) == 4 * Len(fmt)

get_record_size(fmt) == SizeLoop(fmt, 1, 0)

-----------------------------------------------------------------------------
(* FormatParser.DBC_NAME_MAP, parse, get_format.  A name is a string; the   *)
(* dict formats is a function from names to format strings.                 *)

DBC_NAME_MAP ==
    [n \in {"Spell", "AreaTable", "ChrClasses", "ChrRaces", "CreatureDisplayInfo",
            "CreatureFamily", "Talent", "TalentTab"} |->
        CASE n = "Spell" -> "SpellEntry"
          [] n = "AreaTable" -> "AreaTableEntry"
          [] n = "Talent" -> "TalentEntry"
          [] n = "TalentTab" -> "TalentTabEntry"
          [] OTHER -> n]

\* str.endswith
EndsWith(s, suffix) ==
    /\ Len(s) >= Len(suffix)
    /\ SubSeq(s, Len(s) - Len(suffix) + 1, Len(s)) = suffix

\* s[:-n]
DropLast(s, n) == SubSeq(s, 1, Len(s) - n)

\* The declaration `char constexpr <ident>[] = "<value>"` matches the pattern
\* when ident is one or more characters followed by "fmt" and value is not
\* empty; a declaration is the pair <<ident, value>>.
PatternMatches(decl) == Len(decl[1]) > 3 /\ EndsWith(decl[1], "fmt") /\ decl[2] # <<>>

\* The for loop of parse over the declarations from 1-based position i on:
\* group 1 of a match is the identifier without its last "fmt".
RECURSIVE ParseLoop(_, _, _)
ParseLoop(decls, i, fs) ==
    IF i > Len(decls) THEN fs
    ELSE IF PatternMatches(decls[i])
    THEN ParseLoop(decls, i + 1, DictSet(fs, DropLast(decls[i][1], 3), decls[i][2]))
    ELSE ParseLoop(decls, i + 1, fs)

parse(fs, decls) == ParseLoop(decls, 1, fs)

\* The lookups of get_format in the dict fs: <<>> is None.
Lookup(fs, dbc_name) ==
    LET mapped_name == IF dbc_name \in DOMAIN DBC_NAME_MAP
                       THEN DBC_NAME_MAP[dbc_name] ELSE dbc_name
        entry_name == dbc_name \o "Entry"
        fmt_name == dbc_name \o "fmt"
    IN  IF mapped_name \in DOMAIN fs THEN <<fs[mapped_name]>>
        ELSE IF dbc_name \in DOMAIN fs THEN <<fs[dbc_name]>>
        ELSE IF EndsWith(dbc_name, "fmt")
        THEN IF DropLast(dbc_name, 3) \in DOMAIN fs
             THEN <<fs[DropLast(dbc_name, 3)]>> ELSE <<>>
        ELSE IF entry_name \in DOMAIN fs THEN <<fs[entry_name]>>
        ELSE IF fmt_name \in DOMAIN fs THEN <<fs[fmt_name]>>
        ELSE <<>>

\* get_format: the dict is parsed first when it is empty.
get_format(fs, decls, dbc_name) ==
    LET parsed == IF fs = <<>> THEN parse(fs, decls) ELSE fs
    IN  [ret |-> Lookup(parsed, dbc_name), formats |-> parsed]

-----------------------------------------------------------------------------
(* WDBCReader.__init__, _read_header, _validate_format, read *)

\* b'WDBC'
WDBC_SIGNATURE == <<87, 68, 66, 67>>

\* The header length read by _read_header.
HeaderSize == 20

\* The attributes __init__ sets.  signature, data and string_table are
\* options: <<>> is None.
NewReader ==
    [signature |-> <<>>,
     record_count |-> 0,
     field_count |-> 0,
     record_size |-> 0,
     string_block_size |-> 0,
     data |-> <<>>,
     string_table |-> <<>>,
     records |-> <<>>]

\* As read_header, but the four counts are unpacked before the signature is
\* compared.
read_header_counts_first(r, f) ==
    LET header == Slice(f, 0, HeaderSize)
        sig == Slice(header, 0, 4)
        r1 == [r EXCEPT !.signature = <<sig>>,
                        !.record_count = unpack_I(Slice(header, 4, 8)),
                        !.field_count = unpack_I(Slice(header, 8, 12)),
                        !.record_size = unpack_I(Slice(header, 12, 16)),
                        !.string_block_size = unpack_I(Slice(header, 16, 20))]
    IN  IF Len(header) < HeaderSize
        THEN [ret |-> "False", reader |-> r]
        ELSE IF sig # WDBC_SIGNATURE
        THEN [ret |-> "ValueError: Invalid signature", reader |-> r1]
        ELSE [ret |-> "True", reader |-> r1]

\* ret is "True", "False" or the exception raised.
read_header(r, f) ==
    LET header == Slice(f, 0, HeaderSize)
        sig == Slice(header, 0, 4)
        r1 == [r EXCEPT !.signature = <<sig>>]
    IN  IF Len(header) < HeaderSize
        THEN [ret |-> "False", reader |-> r]
        ELSE IF sig # WDBC_SIGNATURE
        THEN [ret |-> "ValueError: Invalid signature", reader |-> r1]
        ELSE [ret |-> "True",
              reader |-> [r1 EXCEPT
                            !.record_count = unpack_I(Slice(header, 4, 8)),
                            !.field_count = unpack_I(Slice(header, 8, 12)),
                            !.record_size = unpack_I(Slice(header, 12, 16)),
                            !.string_block_size = unpack_I(Slice(header, 16, 20))]]

\* As validate_format, but only a format longer than the header's field count
\* is refused.
validate_format_longer_only(r, fmt) ==
    IF Len(fmt) > r.field_count
    THEN "ValueError: Format field count mismatch"
    ELSE "True"

validate_format(r, fmt) ==
    IF Len(fmt) # r.field_count
    THEN "ValueError: Format field count mismatch"
    ELSE "True"

\* As ReadSections, but _parse_records appends to the records of an earlier
\* read().
ReadSectionsAppending(r, f, fmt) ==
    LET data == Slice(f, HeaderSize, HeaderSize + r.record_count * r.record_size)
        pos == HeaderSize + Len(data)
        string_table == Slice(f, pos, pos + r.string_block_size)
        p == parse_records(data, string_table, fmt, r.record_count, r.record_size)
    IN  [ret |-> IF p.ok THEN "True" ELSE "struct.error",
         reader |-> [r EXCEPT !.data = <<data>>,
                              !.string_table = <<string_table>>,
                              !.records = r.records \o p.records]]

\* The two f.read calls after the header, then _parse_records.
ReadSections(r, f, fmt) ==
    LET data == Slice(f, HeaderSize, HeaderSize + r.record_count * r.record_size)
        pos == HeaderSize + Len(data)
        string_table == Slice(f, pos, pos + r.string_block_size)
        p == parse_records(data, string_table, fmt, r.record_count, r.record_size)
    IN  [ret |-> IF p.ok THEN "True" ELSE "struct.error",
         reader |-> [r EXCEPT !.data = <<data>>,
                              !.string_table = <<string_table>>,
                              !.records = p.records]]

read(r, exists, f, fmt) ==
    IF ~exists THEN [ret |-> "FileNotFoundError", reader |-> r]
    ELSE LET h == read_header(r, f)
         IN  IF h.ret # "True" THEN h
             ELSE LET v == validate_format(h.reader, fmt)
                  IN  IF v # "True" THEN [ret |-> v, reader |-> h.reader]
                      ELSE ReadSections(h.reader, f, fmt)

-----------------------------------------------------------------------------
(* Calls and what they return. *)

\* The last call: its name and its arguments.  filter and columns are
\* options (<<>> is None): a filter is a sequence of <<field index, value>>
\* pairs in the dict's order, columns a sequence of field indices.  key is
\* the field the caller of a key lookup means.
NoCall ==
    [op |-> "none", row_id |-> IntV(0), key |-> 0, value |-> NoneV,
     filter |-> <<>>, columns |-> <<>>, offset |-> 0, name |-> "", args |-> <<>>]

\* A returned value: kind names its type, val holds it (a returned record or
\* number is the one element of val, a returned list or string is val).
Ret(kind, val) == [kind |-> kind, val |-> val]

RetNone == Ret("None", <<>>)

-----------------------------------------------------------------------------
(* WDBCReader.get_record, get_record_by_id, query *)

\* self.records[i] for an int i: a negative index counts from the end.
ListItem(records, i) ==
    IF 0 <= i /\ i < Len(records) THEN Ret("record", <<records[i + 1]>>)
    ELSE IF i < 0 /\ -i <= Len(records)
    THEN Ret("record", <<records[Len(records) + i + 1]>>)
    ELSE Ret("raise", <<"IndexError">>)

\* As get_record, without the lower bound.
get_record_no_lower_bound(records, row_id) ==
    IF row_id.t = "int"
    THEN IF row_id.v[1] < Len(records) THEN ListItem(records, row_id.v[1])
         ELSE RetNone
    ELSE IF FloatInRange(row_id.v, Len(records))
    THEN Ret("raise", <<"TypeError">>)
    ELSE RetNone

\* row_id is a number, an int or a float: the comparisons take both, a list
\* index must be an int.
get_record(records, row_id) ==
    IF row_id.t = "int"
    THEN IF 0 <= row_id.v[1] /\ row_id.v[1] < Len(records)
         THEN ListItem(records, row_id.v[1])
         ELSE RetNone
    ELSE IF FloatInRange(row_id.v, Len(records))
    THEN Ret("raise", <<"TypeError">>)
    ELSE RetNone

\* The position (from 1) at which the for loop of get_record_by_id
\* returns: that of the first record whose field 0 equals id_value, 0 when
\* the loop ends without one.
ByIdStop(records, id_value) ==
    LET hits == {i \in 1..Len(records) : PyEq(Get(records[i], 0), id_value)}
    IN  IF hits = {} THEN 0
        ELSE CHOOSE i \in hits : \A j \in 1..(i - 1) : j \notin hits

\* As get_record_by_id, but the loop keeps the last match.
get_record_by_id_last(records, id_value) ==
    LET hits == {i \in 1..Len(records) : PyEq(Get(records[i], 0), id_value)}
    IN  IF hits = {} THEN RetNone
        ELSE Ret("record", <<records[CHOOSE i \in hits : \A j \in hits : j <= i]>>)

get_record_by_id(records, id_value) ==
    IF ByIdStop(records, id_value) = 0 THEN RetNone
    ELSE Ret("record", <<records[ByIdStop(records, id_value)]>>)

\* As MatchLoop, but one equal pair is enough.
RECURSIVE MatchLoopAny(_, _, _)
MatchLoopAny(record, items, j) ==
    IF j > Len(items) THEN FALSE
    ELSE IF PyEq(Get(record, items[j][1]), items[j][2]) THEN TRUE
    ELSE MatchLoopAny(record, items, j + 1)

\* As MatchLoop, but a field the record lacks matches every value.
RECURSIVE MatchLoopLenient(_, _, _)
MatchLoopLenient(record, items, j) ==
    IF j > Len(items) THEN TRUE
    ELSE IF items[j][1] \in DOMAIN record /\ ~PyEq(record[items[j][1]], items[j][2])
    THEN FALSE
    ELSE MatchLoopLenient(record, items, j + 1)

\* The inner for loop of query over filter_dict.items() from 1-based
\* position j on: the value of match when the loop ends or breaks.
RECURSIVE MatchLoop(_, _, _)
MatchLoop(record, items, j) ==
    IF j > Len(items) THEN TRUE
    ELSE IF ~PyEq(Get(record, items[j][1]), items[j][2]) THEN FALSE
    ELSE MatchLoop(record, items, j + 1)

\* {idx: record.get(idx) for idx in columns} from 1-based position j on.
RECURSIVE ProjectLoop(_, _, _, _)
ProjectLoop(record, columns, j, out) ==
    IF j > Len(columns) THEN out
    ELSE ProjectLoop(record, columns, j + 1,
                     DictSet(out, columns[j], Get(record, columns[j])))

\* Python's truth value of an optional dict or list: None and the empty one
\* are false.
Truthy(opt) == opt # <<>> /\ opt[1] # <<>>

\* The outer for loop of query, as a whole so that a table may hold a
\* thousand rows: the records that do not `continue`, in their order, each
\* appended as it is or as the dict of the columns.
QueryLoop(records, filter_dict, columns) ==
    LET Passes(record) == IF Truthy(filter_dict)
                          THEN MatchLoop(record, filter_dict[1], 1)
                          ELSE TRUE
        passed == SelectSeq(records, Passes)
    IN  [i \in 1..Len(passed) |->
            IF Truthy(columns) THEN ProjectLoop(passed[i], columns[1], 1, EmptyDict)
            ELSE passed[i]]

query(records, filter_dict, columns) ==
    Ret("list", QueryLoop(records, filter_dict, columns))

\* bytes.decode('ascii'): a byte above 127 is an error.
decode_ascii(b) == [ok |-> \A i \in 1..Len(b) : b[i] < 128, s |-> b]

\* get_info: the header fields and the format string (the file's name is
\* left out).  An unset signature is falsy and reads None.
get_info(r, fmt) ==
    LET sig == IF Truthy(r.signature) THEN <<decode_ascii(r.signature[1])>> ELSE <<>>
    IN  IF sig # <<>> /\ ~sig[1].ok THEN Ret("raise", <<"UnicodeDecodeError">>)
        ELSE Ret("info", <<[signature |-> IF sig = <<>> THEN <<>> ELSE <<sig[1].s>>,
                           record_count |-> r.record_count,
                           field_count |-> r.field_count,
                           record_size |-> r.record_size,
                           string_block_size |-> r.string_block_size,
                           format |-> fmt]>>)

-----------------------------------------------------------------------------
(* DBCQueryMCP._query_dbc (src/server.py), from the reader that _load_dbc   *)
(* returns on.  The arguments are a record of options (<<>>: the key is    *)
(* not in args): info a boolean, id a value, row_index and limit numbers,  *)
(* filter a sequence of <<key string, value>> pairs, columns a sequence of *)
(* field indices.                                                           *)

NoArgs ==
    [info |-> <<>>, id |-> <<>>, row_index |-> <<>>, filter |-> <<>>,
     columns |-> <<>>, limit |-> <<>>]

\* The default of args.get("limit", 100) and the cap of min(..., 1000).
DefaultLimit == 100
MaxLimit == 1000

\* int(c) of one character.
DigitOf(c) ==
    CASE c = "0" -> 0 [] c = "1" -> 1 [] c = "2" -> 2 [] c = "3" -> 3 [] c = "4" -> 4
      [] c = "5" -> 5 [] c = "6" -> 6 [] c = "7" -> 7 [] c = "8" -> 8 [] c = "9" -> 9
      [] OTHER -> -1

\* int(k) of a string of at most nine characters: <<n>> for a string of
\* decimal digits, <<>> (ValueError) for the empty string and for a string
\* that holds a letter.
RECURSIVE IntOfDigits(_, _, _)
IntOfDigits(k, i, n) ==
    IF i > Len(k) THEN <<n>>
    ELSE IF DigitOf(SubSeq(k, i, i)) < 0 THEN <<>>
    ELSE IntOfDigits(k, i + 1, 10 * n + DigitOf(SubSeq(k, i, i)))

int_of_str(k) == IF k = "" THEN <<>> ELSE IntOfDigits(k, 1, 0)

\* d[k] = v on a dict kept as its sequence of pairs in insertion order: a
\* key the dict holds keeps its place.
ItemsSet(items, k, v) ==
    IF \E j \in 1..Len(items) : items[j][1] = k
    THEN [j \in 1..Len(items) |-> IF items[j][1] = k THEN <<k, v>> ELSE items[j]]
    ELSE Append(items, <<k, v>>)

\* {int(k): v for k, v in args["filter"].items()} from 1-based position j
\* on: [ok |-> FALSE] is the ValueError of int(k).
RECURSIVE ConvertFilter(_, _, _)
ConvertFilter(pairs, j, out) ==
    IF j > Len(pairs) THEN [ok |-> TRUE, items |-> out]
    ELSE IF int_of_str(pairs[j][1]) = <<>> THEN [ok |-> FALSE, items |-> out]
    ELSE ConvertFilter(pairs, j + 1,
                       ItemsSet(out, int_of_str(pairs[j][1])[1], pairs[j][2]))

\* min(limit, 1000): the second argument is taken when it is the smaller.
CapLimit(limit) ==
    IF limit.t = "int"
    THEN IF MaxLimit < limit.v[1] THEN IntV(MaxLimit) ELSE limit
    ELSE IF FloatGtInt(limit.v, MaxLimit) THEN IntV(MaxLimit) ELSE limit

\* n > limit for the length n of a list.
LenExceeds(n, limit) ==
    IF limit.t = "int" THEN n > limit.v[1] ELSE FloatLtInt(limit.v, n)

\* results[:n] for an int n: a negative n counts from the end.
SliceTo(results, n) ==
    IF n >= 0 THEN SubSeq(results, 1, Min(n, Len(results)))
    ELSE SubSeq(results, 1, Max(Len(results) + n, 0))

\* A response dict: the keys a branch does not set are <<>>.
Response(res, message, count, truncated) ==
    Ret("dict", <<[result |-> res, message |-> message, count |-> count,
                  truncated |-> truncated]>>)

\* if columns: record = {idx: record.get(idx) for idx in columns}
ProjectOne(record, columns) ==
    IF Truthy(columns) THEN ProjectLoop(record, columns[1], 1, EmptyDict) ELSE record

\* The branch of one looked-up record (id or row_index), found being what
\* the reader returned.
RecordResponse(found, columns) ==
    IF found.kind = "raise" THEN found
    ELSE IF found.kind = "None" THEN Response(<<>>, <<"No record found">>, <<>>, <<>>)
    ELSE Response(<<ProjectOne(found.val[1], columns)>>, <<>>, <<>>, <<>>)

\* "Apply limit" and the dict returned; limit is the capped one.  A slice
\* index must be an int.
LimitedResponse(results, limit) ==
    IF LenExceeds(Len(results), limit)
    THEN IF limit.t = "int"
         THEN Response(SliceTo(results, limit.v[1]), <<>>,
                       <<Len(SliceTo(results, limit.v[1]))>>, <<TRUE>>)
         ELSE Ret("raise", <<"TypeError">>)
    ELSE Response(results, <<>>, <<Len(results)>>, <<FALSE>>)

\* _query_dbc after _load_dbc has returned the reader r of format fmt.
query_dbc(r, fmt, args) ==
    IF args.info = <<TRUE>>
    THEN LET info == get_info(r, fmt)
         IN  IF info.kind = "raise" THEN info
             ELSE Response(info.val, <<>>, <<>>, <<>>)
    ELSE IF args.id # <<>>
    THEN RecordResponse(get_record_by_id(r.records, args.id[1]), args.columns)
    ELSE IF args.row_index # <<>>
    THEN RecordResponse(get_record(r.records, args.row_index[1]), args.columns)
    ELSE LET converted == IF args.filter = <<>> THEN [ok |-> TRUE, items |-> <<>>]
                          ELSE ConvertFilter(args.filter[1], 1, <<>>)
             filter_dict == IF args.filter = <<>> THEN <<>> ELSE <<converted.items>>
             limit == CapLimit(IF args.limit = <<>> THEN IntV(DefaultLimit)
                               ELSE args.limit[1])
         IN  IF ~converted.ok THEN Ret("raise", <<"ValueError">>)
             ELSE LimitedResponse(query(r.records, filter_dict, args.columns).val, limit)

\* The name of the one file of the directory, <StoredName>.dbc.
StoredName == "Map"

\* What _load_dbc returns, caches and reads; made is the reader built, if
\* one was.
Loading(ret, cache, fs, made) ==
    [ret |-> ret, cache |-> cache, formats |-> fs, made |-> made]

\* WDBCReader(str(dbc_file), format_string) after its read(): the reader is
\* kept with the format string it was built with and with what read() did.
Built(fmt, rd) == [format_string |-> fmt, reader |-> rd.reader, outcome |-> rd.ret]

\* A reader as the cache holds it and _load_dbc returns it.
Held(made) == [format_string |-> made.format_string, reader |-> made.reader]

\* As CacheReader, but a reader is cached and returned only when its read()
\* returned True; a read() that returned False raises.
CacheReaderChecked(cache, fs, dbc_name, made) ==
    IF made.outcome = "True"
    THEN Loading(Ret("reader", <<Held(made)>>), DictSet(cache, dbc_name, Held(made)),
                 fs, <<made>>)
    ELSE Loading(Ret("raise", <<made.outcome>>), cache, fs, <<made>>)

\* Lines 112 to 117 of _load_dbc: the value read() returns is dropped, an
\* exception it raises passes to the caller.
CacheReader(cache, fs, dbc_name, made) ==
    IF made.outcome \in {"True", "False"}
    THEN Loading(Ret("reader", <<Held(made)>>), DictSet(cache, dbc_name, Held(made)),
                 fs, <<made>>)
    ELSE Loading(Ret("raise", <<made.outcome>>), cache, fs, <<made>>)

\* Lines 105 to 117 of _load_dbc, g being what get_format did.
LoadUncached(cache, g, dbc_name, exists, f) ==
    IF ~Truthy(g.ret)
    THEN Loading(Ret("raise", <<"ValueError: No format found">>), cache, g.formats, <<>>)
    ELSE CacheReader(cache, g.formats, dbc_name,
                     Built(g.ret[1], read(NewReader, exists, f, g.ret[1])))

\* _load_dbc, with exists and f the state of the file dbc_path/<dbc_name>.dbc.
load_dbc(cache, fs, decls, dbc_name, exists, f) ==
    IF dbc_name \in DOMAIN cache
    THEN Loading(Ret("reader", <<cache[dbc_name]>>), cache, fs, <<>>)
    ELSE LoadUncached(cache, get_format(fs, decls, dbc_name), dbc_name, exists, f)

-----------------------------------------------------------------------------
(* DBCQueryMCP._query_dbc as a whole, call_tool and run.  What json.loads  *)
(* returns is a record tagged t: an object carries the keys the server     *)
(* asks for, each an option (<<>> when the key is missing);  null, a        *)
(* number, a string and a list carry nothing, the server asking them for    *)
(* nothing but .get, which they lack.                                       *)

\* null, a number, a string or a list.
JsonOther(t) == [t |-> t]

\* The object of a tool's arguments: dbc_name, and the other arguments of
\* query_dbc.
Arguments(dbc_name, args) == [t |-> "object", dbc_name |-> dbc_name, args |-> args]

\* The object under "params".
Params(name, arguments) == [t |-> "object", name |-> name, arguments |-> arguments]

\* The object of a request.
Request(id, method, params) ==
    [t |-> "object", id |-> id, method |-> method, params |-> params]

\* The lines of valid JSON the server is sent, each with what json.loads
\* returns for it.
JsonLines ==
    LET Call(id, params) == Request(<<id>>, <<"tools/call">>, params)
        Tool(id, name, arguments) == Call(id, <<Params(<<name>>, arguments)>>)
    IN  {<<"{\"id\":1,\"method\":\"initialize\"}\n",
           Request(<<1>>, <<"initialize">>, <<>>)>>,
         <<"{\"id\":2,\"method\":\"tools/list\"}\n",
           Request(<<2>>, <<"tools/list">>, <<>>)>>,
         <<"{\"id\":3,\"method\":\"tools/call\",\"params\":{\"name\":\"query_dbc\",\"arguments\":{\"dbc_name\":\"Map\"}}}\n",
           Tool(3, "query_dbc", <<Arguments(<<"Map">>, NoArgs)>>)>>,
         <<"{\"id\":4,\"method\":\"tools/call\",\"params\":{\"name\":\"query_dbc\",\"arguments\":{\"dbc_name\":\"Map\",\"id\":1}}}\n",
           Tool(4, "query_dbc",
                <<Arguments(<<"Map">>, [NoArgs EXCEPT !.id = <<IntV(1)>>])>>)>>,
         <<"{\"id\":5,\"method\":\"tools/call\",\"params\":{\"name\":\"query_dbc\",\"arguments\":{\"dbc_name\":\"Bogus\"}}}\n",
           Tool(5, "query_dbc", <<Arguments(<<"Bogus">>, NoArgs)>>)>>,
         <<"{\"id\":6,\"method\":\"tools/call\",\"params\":{\"name\":\"query_dbc\",\"arguments\":{}}}\n",
           Tool(6, "query_dbc", <<Arguments(<<>>, NoArgs)>>)>>,
         <<"{\"id\":7,\"method\":\"tools/call\",\"params\":{\"name\":\"query_dbc\",\"arguments\":[]}}\n",
           Tool(7, "query_dbc", <<JsonOther("list")>>)>>,
         <<"{\"id\":8,\"method\":\"tools/call\",\"params\":{\"name\":\"nope\"}}\n",
           Tool(8, "nope", <<>>)>>,
         <<"{\"id\":9,\"method\":\"tools/call\"}\n", Call(9, <<>>)>>,
         <<"{\"id\":10,\"method\":\"tools/call\",\"params\":null}\n",
           Call(10, <<JsonOther("null")>>)>>,
         <<"{\"id\":11,\"method\":\"bogus\"}\n", Request(<<11>>, <<"bogus">>, <<>>)>>,
         <<"{}\n", Request(<<>>, <<>>, <<>>)>>,
         <<"[]\n", JsonOther("list")>>,
         <<"null\n", JsonOther("null")>>}

\* json.loads(line): ok is FALSE when it raises JSONDecodeError.
json_loads(line) ==
    IF \E p \in JsonLines : p[1] = line
    THEN [ok |-> TRUE, value |-> (CHOOSE p \in JsonLines : p[1] = line)[2]]
    ELSE [ok |-> FALSE, value |-> JsonOther("null")]

\* The dict a tool returns in place of a result: {"error": msg, "isError": True}
ToolError(msg) == Ret("error", <<msg>>)

\* _query_dbc from line 275 on, l being what _load_dbc did: an exception of
\* _load_dbc is returned as an error or, for one _query_dbc does not catch,
\* raised on.
QueryLoaded(l, args) ==
    IF l.ret.kind = "raise"
    THEN IF l.ret.val[1] = "struct.error" THEN l
         ELSE Loading(ToolError(l.ret.val[1]), l.cache, l.formats, l.made)
    ELSE Loading(query_dbc(l.ret.val[1].reader, l.ret.val[1].format_string, args),
                 l.cache, l.formats, l.made)

\* _query_dbc(arguments), with exists and f the state of the file
\* dbc_path/<StoredName>.dbc, the one file of the directory.
query_dbc_tool(cache, fs, decls, exists, f, arguments) ==
    IF arguments.t # "object"
    THEN Loading(Ret("raise", <<"AttributeError">>), cache, fs, <<>>)
    ELSE IF arguments.dbc_name = <<>> \/ arguments.dbc_name[1] = ""
    THEN Loading(ToolError("dbc_name is required"), cache, fs, <<>>)
    ELSE QueryLoaded(load_dbc(cache, fs, decls, arguments.dbc_name[1],
                              exists /\ arguments.dbc_name[1] = StoredName, f),
                     arguments.args)

\* The except clause of call_tool: an exception becomes an error dict.
Caught(l) ==
    IF l.ret.kind = "raise" THEN [l EXCEPT !.ret = ToolError(l.ret.val[1])] ELSE l

\* call_tool(name, arguments) for query_dbc and for names of no tool.
call_tool(cache, fs, decls, exists, f, name, arguments) ==
    IF name = <<"query_dbc">>
    THEN Caught(query_dbc_tool(cache, fs, decls, exists, f, arguments))
    ELSE Loading(ToolError("Unknown tool"), cache, fs, <<>>)

\* The JSON-RPC error codes of run.
MethodNotFound == -32601
ParseError == -32700

\* A line written to stdout: a result (body names it) or an error (body is
\* its code), with the id echoed (<<>> is null).
Reply(id, kind, body) == [id |-> id, kind |-> kind, body |-> body]

\* What one turn of the loop of run did: the line written, if one was, and
\* what a tool call changed.
Handled(response, l) ==
    [response |-> response, cache |-> l.cache, formats |-> l.formats, made |-> l.made]

\* The response of tools/call, l being what call_tool did.
ToolReply(id, l) == Handled(<<Reply(id, "result", l.ret)>>, l)

\* The branch of tools/call: params.get raises AttributeError when params is
\* no dict, which run logs to stderr; tool_args is {} when params has no
\* arguments.
HandleToolCall(cache, fs, decls, exists, f, id, params) ==
    IF params.t # "object"
    THEN Handled(<<>>, Loading(RetNone, cache, fs, <<>>))
    ELSE ToolReply(id, call_tool(cache, fs, decls, exists, f, params.name,
                                 IF params.arguments = <<>>
                                 THEN Arguments(<<>>, NoArgs)
                                 ELSE params.arguments[1]))

\* The try block of run after json.loads: request.get raises AttributeError
\* when the request is no dict, which run logs to stderr.
HandleRequest(cache, fs, decls, exists, f, request) ==
    IF request.t # "object"
    THEN Handled(<<>>, Loading(RetNone, cache, fs, <<>>))
    ELSE IF request.method = <<"initialize">>
    THEN Handled(<<Reply(request.id, "result", Ret("initialize", <<>>))>>,
                 Loading(RetNone, cache, fs, <<>>))
    ELSE IF request.method = <<"tools/list">>
    THEN Handled(<<Reply(request.id, "result", Ret("tools", <<>>))>>,
                 Loading(RetNone, cache, fs, <<>>))
    ELSE IF request.method = <<"tools/call">>
    THEN \* params = request.get("params", {})
         HandleToolCall(cache, fs, decls, exists, f, request.id,
                        IF request.params = <<>> THEN Params(<<>>, <<>>)
                        ELSE request.params[1])
    ELSE Handled(<<Reply(request.id, "error", Ret("int", <<MethodNotFound>>))>>,
                 Loading(RetNone, cache, fs, <<>>))

\* One turn of the loop of run on a line read, parsed being what json.loads
\* did with it.
HandleParsed(cache, fs, decls, exists, f, parsed) ==
    IF ~parsed.ok
    THEN Handled(<<Reply(<<>>, "error", Ret("int", <<ParseError>>))>>,
                 Loading(RetNone, cache, fs, <<>>))
    ELSE HandleRequest(cache, fs, decls, exists, f, parsed.value)

\* sys.stdin.readline(): the next line with its newline, "" at the end of
\* the input.
readline(lines) == IF lines = <<>> THEN "" ELSE Head(lines)

-----------------------------------------------------------------------------
(* Files. *)

\* struct.pack('<I', n)
pack_I(n) ==
    <<n % 256, (n \div 256) % 256, (n \div 65536) % 256, (n \div 16777216) % 256>>

MakeHeader(magic, rc, fc, rs, sb) ==
    magic \o pack_I(rc) \o pack_I(fc) \o pack_I(rs) \o pack_I(sb)

\* A four-byte tag that is not the signature.
BadMagic == <<87, 68, 66, 50>>

\* The format characters of the files opened under Spec: one per branch of
\* _parse_record ("n", "d" and "l" share the branch of "i"), and "z", which
\* no branch names.
OpenChars == {"i", "f", "s", "b", "x", "X", "z"}

\* The byte every data byte of those files holds.
DataFills == {0, 2}

\* A string pool of n bytes: "A\0A\0..."
StringPool(n) == [i \in 1..n |-> IF i % 2 = 1 THEN 65 ELSE 0]

\* How a file is cut short: not at all, by its last byte, to one byte less
\* than its data section, to one byte less than its header.
Cuts == {"whole", "last", "data", "header"}

CutFile(full, rc, rs, cut) ==
    CASE cut = "whole" -> full
      [] cut = "last" -> Slice(full, 0, Len(full) - 1)
      [] cut = "data" -> Slice(full, 0, HeaderSize + rc * rs - 1)
      [] cut = "header" -> Slice(full, 0, HeaderSize - 1)

\* The record sizes a header declares for a format of true size n.
DeclaredSizes(n) == {n, n + 1, Max(n - 1, 0)}

\* State after WDBCReader(dbc_path, format_string).
Fresh ==
    /\ reader = NewReader
    /\ outcome = "NotCalled"
    /\ call = NoCall
    /\ result = RetNone

\* State after DBCQueryMCP.__init__: nothing is cached.
NoCache == dbc_cache = EmptyDict

\* DBCQueryMCP.run has not been called.
NotRunning ==
    /\ stdin = <<>>
    /\ stdout = <<>>
    /\ pc = "NotStarted"

\* State after FormatParser(dbcfmt_path) on a file without declarations.
NoCatalog ==
    /\ dbcfmt = <<>>
    /\ formats = <<>>

Init ==
    /\ Fresh
    /\ NoCache
    /\ NotRunning
    /\ NoCatalog
    /\ \E fmt \in SeqsUpTo(OpenChars, MaxFields), magic \in {WDBC_SIGNATURE, BadMagic},
          rc \in 0..MaxRecords, sb \in 0..MaxStr, fill \in DataFills, cut \in Cuts :
         \E fc \in {Len(fmt), Len(fmt) + 1}, rs \in DeclaredSizes(get_record_size(fmt)) :
            /\ format_string = fmt
            /\ file = CutFile(MakeHeader(magic, rc, fc, rs, sb)
                                \o [i \in 1..(rc * rs) |-> fill] \o StringPool(sb),
                              rc, rs, cut)
            /\ path_exists \in IF fmt = <<>> /\ rc = 0 /\ sb = 0 THEN BOOLEAN ELSE {TRUE}

-----------------------------------------------------------------------------
(* Actions. *)

\* No call is in progress: the calls are synchronous and made one at a time.
Idle == call.op = "none"

\* The caller takes the returned value (or the exception) and goes on.
Return ==
    /\ ~Idle
    /\ call' = NoCall
    /\ result' = RetNone
    /\ UNCHANGED <<path_exists, file, format_string, reader, outcome, dbcfmt, formats, dbc_cache,
                 stdin, stdout, pc>>

\* reader.read()
Read ==
    /\ Idle
    /\ LET r == read(reader, path_exists, file, format_string)
       IN  /\ reader' = r.reader
           /\ outcome' = r.ret
           /\ result' = IF r.ret \in {"True", "False"}
                        THEN Ret("bool", <<r.ret>>)
                        ELSE Ret("raise", <<r.ret>>)
    /\ call' = [NoCall EXCEPT !.op = "read"]
    /\ UNCHANGED <<path_exists, file, format_string, dbcfmt, formats, dbc_cache,
                 stdin, stdout, pc>>

\* FormatParser.get_record_size(format_string)
GetRecordSize ==
    /\ Idle
    /\ call' = [NoCall EXCEPT !.op = "get_record_size"]
    /\ result' = Ret("int", <<get_record_size(format_string)>>)
    /\ UNCHANGED <<path_exists, file, format_string, reader, outcome, dbcfmt, formats, dbc_cache,
                 stdin, stdout, pc>>

Next == Read \/ GetRecordSize \/ Return

Spec == Init /\ [][Next]_vars

-----------------------------------------------------------------------------
(* Tables to query: whole files whose header agrees with the format string. *)

\* The format strings of the tables queried under SpecQuery.
QueryFormats ==
    {<<>>, <<"i">>, <<"i", "f">>, <<"f", "s">>, <<"s", "i">>, <<"x", "b">>,
     <<"z", "n">>}

\* The two byte patterns a writer puts in a field of each kind: the numbers
\* 1 and 2, the floats 1.0 and NaN, the string offsets 1 and 0.
FieldBytes(c, pick) ==
    CASE c \in {"i", "n", "d", "l"} -> <<pick, 0, 0, 0>>
      [] c = "f" -> IF pick = 1 THEN <<0, 0, 128, 63>> ELSE <<0, 0, 192, 127>>
      [] c = "s" -> <<2 - pick, 0, 0, 0>>
      [] c = "b" -> <<pick>>
      [] c = "x" -> <<0, 0, 0, 0>>
      [] c = "X" -> <<0>>
      [] OTHER -> <<>>

\* One row: field j holds the pattern picks[j] of its kind.
RowBytes(fmt, picks) == Flatten([j \in 1..Len(fmt) |-> FieldBytes(fmt[j], picks[j])])

\* The string pool of those tables: "" at offset 0, "A" at offset 1.
QueryStrings == <<0, 65, 0>>

TableFile(fmt, rows) ==
    MakeHeader(WDBC_SIGNATURE, Len(rows), Len(fmt), get_record_size(fmt),
               Len(QueryStrings))
    \o Flatten([r \in 1..Len(rows) |-> RowBytes(fmt, rows[r])])
    \o QueryStrings

InitQuery ==
    /\ Fresh
    /\ NoCache
    /\ NotRunning
    /\ NoCatalog
    /\ path_exists = TRUE
    /\ \E fmt \in QueryFormats :
         \E rows \in SeqsUpTo([1..Len(fmt) -> {1, 2}], MaxRecords) :
            /\ format_string = fmt
            /\ file = TableFile(fmt, rows)

\* Arguments drawn for the lookups: the row indices around the table's ends
\* and the numbers 0.5, 1.0, -1.0 and NaN; 7 is a field index no record has.
RowIds ==
    {IntV(i) : i \in -2..(MaxRecords + 1)}
        \cup {FloatV(<<0, 0, 0, 63>>), FloatV(<<0, 0, 128, 63>>),
              FloatV(<<0, 0, 128, 191>>), FloatV(<<0, 0, 192, 127>>)}

KeyFields == {0, 1, 7}

KeyValues ==
    {IntV(1), IntV(2), FloatV(<<0, 0, 128, 63>>), FloatV(<<0, 0, 192, 127>>),
     StrV(<<65>>), NoneV}

FilterPairs == KeyFields \X KeyValues

\* A dict of at most two entries, in insertion order.
FilterDicts ==
    {<<>>} \cup {<<p>> : p \in FilterPairs}
           \cup {d \in FilterPairs \X FilterPairs : d[1][1] # d[2][1]}

ColumnLists == SeqsUpTo(KeyFields, 2)

\* reader.get_record(row_id)
GetRecord ==
    /\ Idle
    /\ \E row_id \in RowIds :
         /\ call' = [NoCall EXCEPT !.op = "get_record", !.row_id = row_id]
         /\ result' = get_record(reader.records, row_id)
    /\ UNCHANGED <<path_exists, file, format_string, reader, outcome, dbcfmt, formats, dbc_cache,
                 stdin, stdout, pc>>

\* reader.get_record_by_id(id_value), by a caller looking for the record
\* whose field key is id_value: the method has no parameter for the field.
GetRecordById ==
    /\ Idle
    /\ \E key \in KeyFields, id_value \in KeyValues :
         /\ call' = [NoCall EXCEPT !.op = "get_record_by_id",
                                   !.key = key, !.value = id_value]
         /\ result' = get_record_by_id(reader.records, id_value)
    /\ UNCHANGED <<path_exists, file, format_string, reader, outcome, dbcfmt, formats, dbc_cache,
                 stdin, stdout, pc>>

\* The arguments drawn for query: every filter without columns, and every
\* column list under no filter, the empty filter and the filters on field 0
\* alone.
QueryArgs ==
    {a \in ({<<>>} \cup {<<d>> : d \in FilterDicts})
           \X ({<<>>} \cup {<<c>> : c \in ColumnLists}) :
        IF a[2] = <<>> \/ a[1] = <<>> THEN TRUE
        ELSE IF Len(a[1][1]) = 0 THEN TRUE
        ELSE Len(a[1][1]) = 1 /\ a[1][1][1][1] = 0}

\* As Query, but the reader keeps only the records the query returned.
QueryKeepingResults ==
    /\ Idle
    /\ \E a \in QueryArgs :
         /\ call' = [NoCall EXCEPT !.op = "query", !.filter = a[1], !.columns = a[2]]
         /\ result' = query(reader.records, a[1], a[2])
         /\ reader' = [reader EXCEPT !.records = query(reader.records, a[1], a[2]).val]
    /\ UNCHANGED <<path_exists, file, format_string, outcome, dbcfmt, formats, dbc_cache,
                 stdin, stdout, pc>>

\* reader.query(filter_dict, columns)
Query ==
    /\ Idle
    /\ \E a \in QueryArgs :
         /\ call' = [NoCall EXCEPT !.op = "query", !.filter = a[1], !.columns = a[2]]
         /\ result' = query(reader.records, a[1], a[2])
    /\ UNCHANGED <<path_exists, file, format_string, reader, outcome, dbcfmt, formats, dbc_cache,
                 stdin, stdout, pc>>

\* reader.get_info()
GetInfo ==
    /\ Idle
    /\ call' = [NoCall EXCEPT !.op = "get_info"]
    /\ result' = get_info(reader, format_string)
    /\ UNCHANGED <<path_exists, file, format_string, reader, outcome, dbcfmt, formats, dbc_cache,
                 stdin, stdout, pc>>

NextQuery == Read \/ GetRecord \/ GetRecordById \/ Query \/ GetInfo \/ Return

SpecQuery == InitQuery /\ [][NextQuery]_vars

-----------------------------------------------------------------------------
(* String tables to read from: tables without rows, loaded by read(). *)

\* The bytes a string table is drawn from: the terminator, "A", the two
\* bytes of U+00E9 and the three bytes of U+20AC in UTF-8.
StrBytes == {0, 65, 195, 169, 226, 130, 172}

InitStr ==
    /\ Fresh
    /\ NoCache
    /\ NotRunning
    /\ NoCatalog
    /\ path_exists = TRUE
    /\ format_string = <<>>
    /\ \E table \in SeqsUpTo(StrBytes, MaxStr) :
         file = MakeHeader(WDBC_SIGNATURE, 0, 0, 0, Len(table)) \o table

\* reader._read_string(offset), once read() has set the string table.
ReadString ==
    /\ Idle
    /\ reader.string_table # <<>>
    /\ \E offset \in 0..(MaxStr + 1) :
         /\ call' = [NoCall EXCEPT !.op = "read_string", !.offset = offset]
         /\ result' = LET r == read_string(reader.string_table[1], offset)
                      IN  IF r.ok THEN Ret("str", r.s)
                          ELSE Ret("raise", <<"UnicodeDecodeError">>)
    /\ UNCHANGED <<path_exists, file, format_string, reader, outcome, dbcfmt, formats, dbc_cache,
                 stdin, stdout, pc>>

NextStr == Read \/ ReadString \/ Return

SpecStr == InitStr /\ [][NextStr]_vars

-----------------------------------------------------------------------------
(* Catalogs to resolve names in: a parser on a file of declarations. *)

\* The table names the declarations are built from: one DBC_NAME_MAP maps to
\* its "Entry" key and one it does not name.
BaseNames == {"Spell", "Map"}

\* The identifiers declared: a base name, alone or followed by "Entry",
\* "fmt" or both, with the "fmt" every declaration of DBCfmt.h ends in; and
\* one identifier that does not end in "fmt".
DeclaredIdents ==
    {b \o s \o "fmt" : b \in BaseNames, s \in {"", "Entry", "fmt", "fmtEntry", "fmtfmt"}}
        \cup {"SpellEntry"}

\* The format strings declared.
DeclaredFormats == {<<"n">>, <<"n", "i">>}

\* The names asked for.
AskedNames ==
    {b \o s : b \in BaseNames, s \in {"", "fmt", "Entry"}} \cup {"fmt", "ChrClasses"}

\* State after FormatParser(dbcfmt_path), no reader being involved.
InitFmt ==
    /\ Fresh
    /\ NoCache
    /\ NotRunning
    /\ path_exists = FALSE
    /\ file = <<>>
    /\ format_string = <<>>
    /\ formats = <<>>
    /\ dbcfmt \in SeqsUpTo(DeclaredIdents \X DeclaredFormats, MaxDecls)

\* format_parser.parse()
Parse ==
    /\ Idle
    /\ formats' = parse(formats, dbcfmt)
    /\ call' = [NoCall EXCEPT !.op = "parse"]
    /\ result' = RetNone
    /\ UNCHANGED <<path_exists, file, format_string, reader, outcome, dbcfmt, dbc_cache,
                 stdin, stdout, pc>>

\* format_parser.get_format(dbc_name)
GetFormat ==
    /\ Idle
    /\ \E dbc_name \in AskedNames :
         LET r == get_format(formats, dbcfmt, dbc_name)
         IN  /\ formats' = r.formats
             /\ call' = [NoCall EXCEPT !.op = "get_format", !.name = dbc_name]
             /\ result' = IF r.ret = <<>> THEN RetNone ELSE Ret("str", r.ret[1])
    /\ UNCHANGED <<path_exists, file, format_string, reader, outcome, dbcfmt, dbc_cache,
                 stdin, stdout, pc>>

NextFmt == Parse \/ GetFormat \/ Return

SpecFmt == InitFmt /\ [][NextFmt]_vars

-----------------------------------------------------------------------------
(* Tables to decode: whole files under every format string of the nine     *)
(* format characters.                                                       *)

\* The format characters of format_parser.py.
FormatChars == {"i", "n", "d", "l", "f", "s", "b", "x", "X"}

\* The data sections written: n bytes that count up from 1, so that every
\* offset reads another value, or n bytes of the little-endian words 1, so
\* that a string field at a multiple of four reads offset 1.
DataKinds == {"count", "words"}

DataBytes(kind, n) ==
    [p \in 1..n |-> IF kind = "count" THEN p % 128
                    ELSE IF p % 4 = 1 THEN 1 ELSE 0]

\* A whole file: the header declares the format's field count and the
\* record size rs, the data section holds rc rows of rs bytes.
InitDecode ==
    /\ Fresh
    /\ NoCache
    /\ NotRunning
    /\ NoCatalog
    /\ path_exists = TRUE
    /\ \E fmt \in SeqsUpTo(FormatChars, MaxFmt), rc \in 0..MaxRecords, kind \in DataKinds :
         \E rs \in DeclaredSizes(get_record_size(fmt)) :
            /\ format_string = fmt
            /\ file = MakeHeader(WDBC_SIGNATURE, rc, Len(fmt), rs, Len(QueryStrings))
                        \o DataBytes(kind, rc * rs) \o QueryStrings

\* FormatParser.get_field_count(format_string)
GetFieldCount ==
    /\ Idle
    /\ call' = [NoCall EXCEPT !.op = "get_field_count"]
    /\ result' = Ret("int", <<get_field_count(format_string)>>)
    /\ UNCHANGED <<path_exists, file, format_string, reader, outcome, dbcfmt, formats, dbc_cache,
                 stdin, stdout, pc>>

NextDecode == Read \/ GetRecordSize \/ GetFieldCount \/ Return

SpecDecode == InitDecode /\ [][NextDecode]_vars

-----------------------------------------------------------------------------
(* Tables to query through the tool: tables of one padding field and of    *)
(* record size 0, which hold their rows in the header's count alone, with  *)
(* as many rows as the limits of _query_dbc.                                *)

RecordCounts == {0, 1, 2, DefaultLimit, DefaultLimit + 1, MaxLimit, MaxLimit + 1}

InitLimit ==
    /\ Fresh
    /\ NoCache
    /\ NotRunning
    /\ NoCatalog
    /\ path_exists = TRUE
    /\ format_string = <<"x">>
    /\ \E rc \in RecordCounts :
         file = MakeHeader(WDBC_SIGNATURE, rc, 1, 0, Len(QueryStrings)) \o QueryStrings

\* The limits asked for: none, the ints around 0 and around the two limits
\* of _query_dbc, and the floats 1.5, 2000.0 and NaN.
Limits ==
    {<<>>} \cup {<<IntV(n)>> : n \in {-1, 0, 1, DefaultLimit, MaxLimit, MaxLimit + 1}}
           \cup {<<FloatV(<<0, 0, 192, 63>>)>>, <<FloatV(<<0, 0, 250, 68>>)>>,
                 <<FloatV(<<0, 0, 192, 127>>)>>}

\* The filters asked for: none, {}, {"0": None}, {"0": 1}, {"x": 1} and
\* {"0": 1, "00": None}.
Filters ==
    {<<>>, << <<>> >>, << <<<<"0", NoneV>>>> >>, << <<<<"0", IntV(1)>>>> >>,
     << <<<<"x", IntV(1)>>>> >>, << <<<<"0", IntV(1)>>, <<"00", NoneV>>>> >>}

\* The requests made: for the file's information, for a record by id, for a
\* record by row index, and the filtered queries.
Requests ==
    {[NoArgs EXCEPT !.info = <<TRUE>>]}
        \cup {[NoArgs EXCEPT !.id = <<v>>, !.columns = c] :
                 v \in {NoneV, IntV(1)}, c \in {<<>>, <<<<0>>>>}}
        \cup {[NoArgs EXCEPT !.row_index = <<n>>] :
                 n \in {IntV(0), IntV(-1), FloatV(<<0, 0, 128, 63>>)}}
        \cup {[NoArgs EXCEPT !.info = i, !.filter = f, !.columns = c, !.limit = l] :
                 i \in {<<>>, <<FALSE>>}, f \in Filters,
                 c \in {<<>>, <<<<0>>>>, << <<>> >>}, l \in Limits}

\* The tool call query_dbc, once _load_dbc has read the table: the reader
\* is the one its cache returns.
QueryDbc ==
    /\ Idle
    /\ outcome \in {"True", "False"}
    /\ \E args \in Requests :
         /\ call' = [NoCall EXCEPT !.op = "query_dbc", !.args = <<args>>]
         /\ result' = query_dbc(reader, format_string, args)
    /\ UNCHANGED <<path_exists, file, format_string, reader, outcome, dbcfmt, formats, dbc_cache,
                 stdin, stdout, pc>>

NextLimit == Read \/ QueryDbc \/ Return

SpecLimit == InitLimit /\ [][NextLimit]_vars

-----------------------------------------------------------------------------
(* Tables to load by name: a server whose directory holds one file,       *)
(* whole or defective, and whose catalog declares two formats.              *)

\* The names loaded: the stored one, one with a format and no file, one
\* with neither.
LoadNames == {StoredName, "Item", "Bogus"}

\* The formats declared for the stored table.
LoadFormats == {<<"n">>, <<"n", "i">>, <<"n", "s">>}

\* State after DBCQueryMCP.__init__: the declarations are parsed, nothing is
\* cached; no reader has been built.
InitLoad ==
    /\ Fresh
    /\ NoCache
    /\ NotRunning
    /\ format_string = <<>>
    /\ \E fmt \in LoadFormats, magic \in {WDBC_SIGNATURE, BadMagic},
          rc \in 0..MaxRecords, sb \in {0, MaxStr}, cut \in Cuts :
         \E fc \in {Len(fmt), Len(fmt) + 1} :
            /\ dbcfmt = << <<StoredName \o "fmt", fmt>>, <<"Itemfmt", <<"n">>>> >>
            /\ formats = parse(<<>>, dbcfmt)
            /\ file = CutFile(MakeHeader(magic, rc, fc, get_record_size(fmt), sb)
                                \o [i \in 1..(rc * get_record_size(fmt)) |-> 2]
                                \o StringPool(sb),
                              rc, get_record_size(fmt), cut)
            /\ path_exists \in IF rc = 0 /\ sb = 0 /\ cut = "whole" /\ fc = Len(fmt)
                               THEN BOOLEAN ELSE {TRUE}

\* self._load_dbc(dbc_name)
LoadDbc ==
    /\ Idle
    /\ \E dbc_name \in LoadNames :
         \E l \in {load_dbc(dbc_cache, formats, dbcfmt, dbc_name,
                            path_exists /\ dbc_name = StoredName, file)} :
            /\ dbc_cache' = l.cache
            /\ formats' = l.formats
            /\ call' = [NoCall EXCEPT !.op = "load_dbc", !.name = dbc_name]
            /\ result' = l.ret
            /\ IF l.made = <<>>
               THEN UNCHANGED <<reader, outcome, format_string>>
               ELSE /\ reader' = l.made[1].reader
                    /\ outcome' = l.made[1].outcome
                    /\ format_string' = l.made[1].format_string
    /\ UNCHANGED <<path_exists, file, dbcfmt, stdin, stdout, pc>>

NextLoad == LoadDbc \/ Return

SpecLoad == InitLoad /\ [][NextLoad]_vars

-----------------------------------------------------------------------------
(* Lines to serve: a server started on a directory of one file, reading a *)
(* few lines from its standard input.                                       *)

MaxLines == 2       \* most lines sent before the input ends

\* The lines sent: those of valid JSON, a line that stops after its first
\* character and a line of nothing but its newline.
Lines == {p[1] : p \in JsonLines} \cup {"{\n", "\n"}

\* The table of one row (1, 5) under the format "ni", and its first 19
\* bytes.
RunTable == MakeHeader(WDBC_SIGNATURE, 1, 2, 8, 0) \o pack_I(1) \o pack_I(5)

RunFiles == {RunTable, Slice(RunTable, 0, HeaderSize - 1)}

\* State after DBCQueryMCP() when run() is entered.
InitRun ==
    /\ Fresh
    /\ NoCache
    /\ format_string = <<>>
    /\ dbcfmt = << <<StoredName \o "fmt", <<"n", "i">>>> >>
    /\ formats = parse(<<>>, dbcfmt)
    /\ \/ path_exists = TRUE /\ file \in RunFiles
       \/ path_exists = FALSE /\ file = <<>>
    /\ stdin \in SeqsUpTo(Lines, MaxLines)
    /\ stdout = <<>>
    /\ pc = "readline"

\* line = sys.stdin.readline(), a line having been sent.
ReadLine ==
    /\ pc = "readline"
    /\ readline(stdin) # ""
    /\ call' = [NoCall EXCEPT !.op = "run", !.name = readline(stdin)]
    /\ stdin' = Tail(stdin)
    /\ pc' = "handle"
    /\ UNCHANGED <<path_exists, file, format_string, reader, outcome, result,
                   dbcfmt, formats, dbc_cache, stdout>>

\* line = sys.stdin.readline() at the end of the input: `if not line: break`
EndOfInput ==
    /\ pc = "readline"
    /\ readline(stdin) = ""
    /\ pc' = "done"
    /\ UNCHANGED <<path_exists, file, format_string, reader, outcome, call, result,
                   dbcfmt, formats, dbc_cache, stdin, stdout>>

\* The rest of the turn of the loop: the line is parsed and handled, a
\* response is written or the exception is logged, and the loop goes back
\* to readline.
HandleLine ==
    /\ pc = "handle"
    /\ \E h \in {HandleParsed(dbc_cache, formats, dbcfmt, path_exists, file,
                              json_loads(call.name))} :
          /\ stdout' = stdout \o h.response
          /\ dbc_cache' = h.cache
          /\ formats' = h.formats
          /\ IF h.made = <<>>
             THEN UNCHANGED <<reader, outcome, format_string>>
             ELSE /\ reader' = h.made[1].reader
                  /\ outcome' = h.made[1].outcome
                  /\ format_string' = h.made[1].format_string
    /\ call' = NoCall
    /\ pc' = "readline"
    /\ UNCHANGED <<path_exists, file, result, dbcfmt, stdin>>

NextRun == ReadLine \/ EndOfInput \/ HandleLine

SpecRun == InitRun /\ [][NextRun]_vars

-----------------------------------------------------------------------------
(* What the file itself says, read off its bytes. *)

ReadCalled == outcome # "NotCalled"

HasHeader == Len(file) >= HeaderSize

FileMagic == Slice(file, 0, 4)

FileRecordCount == unpack_I(Slice(file, 4, 8))

FileFieldCount == unpack_I(Slice(file, 8, 12))

FileRecordSize == unpack_I(Slice(file, 12, 16))

FileStringBlockSize == unpack_I(Slice(file, 16, 20))

\* read() has left no section and no record behind.
NothingRead ==
    /\ reader.data = <<>>
    /\ reader.string_table = <<>>
    /\ reader.records = <<>>

NoCountInterpreted ==
    /\ reader.record_count = 0
    /\ reader.field_count = 0
    /\ reader.record_size = 0
    /\ reader.string_block_size = 0

RecognizedChars == {"i", "n", "d", "l", "f", "s", "b", "x", "X"}

WellFormed(fmt) == \A i \in 1..Len(fmt) : fmt[i] \in RecognizedChars

\* The width the format language gives a recognized character.
FieldWidth(c) == IF c \in {"b", "X"} THEN 1 ELSE 4

RECURSIVE WidthSum(_)
WidthSum(fmt) == IF fmt = <<>> THEN 0 ELSE FieldWidth(Head(fmt)) + WidthSum(Tail(fmt))

\* The file holds fewer bytes than its header declares.
Truncated ==
    \/ ~HasHeader
    \/ Len(file) < HeaderSize + FileRecordCount * FileRecordSize + FileStringBlockSize

-----------------------------------------------------------------------------
(* Claims about read(). *)

\* C5: when the file exists, has a whole header with the WDBC signature and
\* a field_count other than the length of the format string, read() raises
\* the field count mismatch, and neither section has been read nor any row
\* decoded.
C5_FieldCountMismatch ==
    (/\ ReadCalled
     /\ path_exists
     /\ HasHeader
     /\ FileMagic = WDBC_SIGNATURE
     /\ FileFieldCount # Len(format_string))
    => /\ outcome = "ValueError: Format field count mismatch"
       /\ NothingRead

\* C5 witness: the mismatch was raised on a file that holds bytes past its
\* header and declares fewer fields than the format string has.
C5_Witness ==
    /\ outcome = "ValueError: Format field count mismatch"
    /\ Len(file) > HeaderSize
    /\ FileFieldCount > Len(format_string)

\* C6: when the header's record_size is not the sum of the widths of the
\* (well-formed) format string, read() does not end in a loaded reader.
C6_RecordSizeRejected ==
    (/\ ReadCalled
     /\ path_exists
     /\ HasHeader
     /\ WellFormed(format_string)
     /\ FileRecordSize # WidthSum(format_string))
    => outcome # "True"

\* C7: when the file exists, holds at least 20 bytes and does not start with
\* the signature, read() raises the bad signature; no count of the header
\* has been interpreted, no section read and no record decoded.
C7_BadSignature ==
    (/\ ReadCalled
     /\ path_exists
     /\ HasHeader
     /\ FileMagic # WDBC_SIGNATURE)
    => /\ outcome = "ValueError: Invalid signature"
       /\ NoCountInterpreted
       /\ NothingRead

\* C7 witness: the bad signature was raised on a file whose header declares
\* rows and that holds bytes past the header.
C7_Witness ==
    /\ outcome = "ValueError: Invalid signature"
    /\ FileRecordCount > 0
    /\ Len(file) > HeaderSize

\* C8: when the file exists and holds fewer bytes than its header declares,
\* read() does not end in a loaded reader.
C8_TruncatedRejected ==
    (ReadCalled /\ path_exists /\ Truncated) => outcome # "True"

\* C9: with a character outside the recognized set in the format string,
\* read() does not get through decoding a row, and get_record_size does not
\* return a size.
C9_UnknownCharFails ==
    ~WellFormed(format_string)
    => /\ (ReadCalled /\ reader.data # <<>> /\ reader.record_count > 0)
          => outcome # "True"
       /\ call.op = "get_record_size" => result.kind = "raise"

-----------------------------------------------------------------------------
(* Claims about the lookups on a loaded reader. *)

Loaded == outcome = "True"

\* The pairs of an optional filter (none when it is omitted).
PairsOf(filter_dict) == IF filter_dict = <<>> THEN <<>> ELSE filter_dict[1]

\* Field k of the record equals v for every pair <<k, v>>.
MatchesAll(record, pairs) ==
    \A j \in 1..Len(pairs) : PyEq(Get(record, pairs[j][1]), pairs[j][2])

\* The subsequence of recs at the positions in keep, in the order of recs.
SubsequenceAt(recs, keep) ==
    [n \in 1..Cardinality(keep) |->
        recs[CHOOSE i \in keep : Cardinality({j \in keep : j <= i}) = n]]

\* The record of the smallest row index whose field k equals v, None when
\* there is none.
FirstWith(recs, k, v) ==
    LET hits == {i \in 1..Len(recs) : PyEq(Get(recs[i], k), v)}
    IN  IF hits = {} THEN RetNone
        ELSE Ret("record", <<recs[CHOOSE i \in hits : \A j \in hits : i <= j]>>)

\* The record reduced to the field indices of columns, a field it lacks
\* being None.
ReducedTo(record, columns) ==
    [k \in {columns[j] : j \in 1..Len(columns)} |-> Get(record, k)]

\* C1: on a loaded reader, query without a projection returns the records
\* matching every pair of the filter, in row order; all of them when the
\* filter is empty or omitted.
C1_QueryFilter ==
    (Loaded /\ call.op = "query" /\ call.columns = <<>>)
    => /\ result.kind = "list"
       /\ result.val =
            SubsequenceAt(reader.records,
                          {i \in 1..Len(reader.records) :
                             MatchesAll(reader.records[i], PairsOf(call.filter))})

\* C1 witness: a filter of two pairs kept some rows of a loaded table and
\* dropped others.
C1_Witness ==
    /\ Loaded
    /\ call.op = "query"
    /\ call.columns = <<>>
    /\ Len(PairsOf(call.filter)) = 2
    /\ Len(result.val) > 0
    /\ Len(result.val) < Len(reader.records)

\* C2: on a loaded reader, query with a projection (a list of any length)
\* returns, for each matching record in row order, the record reduced to
\* exactly the indices of the projection.
C2_QueryProjection ==
    (Loaded /\ call.op = "query" /\ call.columns # <<>>)
    => LET keep == {i \in 1..Len(reader.records) :
                      MatchesAll(reader.records[i], PairsOf(call.filter))}
           kept == SubsequenceAt(reader.records, keep)
       IN  /\ result.kind = "list"
           /\ result.val = [n \in 1..Len(kept) |-> ReducedTo(kept[n], call.columns[1])]

\* C3 as claimed: on a loaded reader, the key lookup for field k and value v
\* returns the first record whose field k equals v, None when there is none.
C3_ByKeyAnyField ==
    (Loaded /\ call.op = "get_record_by_id")
    => result = FirstWith(reader.records, call.key, call.value)

\* C3 as amended: on a loaded reader, get_record_by_id(v) returns the first
\* record whose field 0 equals v, None when there is none, whichever field
\* the caller means.
C3_ByKeyFieldZero ==
    (Loaded /\ call.op = "get_record_by_id")
    => result = FirstWith(reader.records, 0, call.value)

\* C3 witness: the lookup returned a record although a later, different
\* record has the same field 0.
C3_Witness ==
    /\ Loaded
    /\ call.op = "get_record_by_id"
    /\ result.kind = "record"
    /\ \E i \in 1..Len(reader.records) :
         /\ reader.records[i] # result.val[1]
         /\ PyEq(Get(reader.records[i], 0), call.value)

\* C4: on a loaded reader, get_record(i) returns record i (0-based) when
\* 0 <= i < record_count and None for every other i.
C4_RecordAt ==
    (Loaded /\ call.op = "get_record" /\ call.row_id.t = "int")
    => LET i == call.row_id.v[1]
       IN  result = IF 0 <= i /\ i < reader.record_count
                    THEN Ret("record", <<reader.records[i + 1]>>)
                    ELSE RetNone

\* C4 witness: a negative index into a loaded table that has rows.
C4_Witness ==
    /\ Loaded
    /\ call.op = "get_record"
    /\ call.row_id.t = "int"
    /\ call.row_id.v[1] < 0
    /\ reader.record_count > 0
    /\ result = RetNone

\* C13: on a loaded reader get_record, get_record_by_id and query raise
\* nothing, whatever their arguments; a lookup that finds nothing returns
\* None, and a query that matches no record returns the empty list.
C13_LookupsNeverRaise ==
    (Loaded /\ call.op \in {"get_record", "get_record_by_id", "query"})
    => /\ result.kind # "raise"
       /\ (call.op = "get_record_by_id"
             /\ \A i \in 1..Len(reader.records) :
                   ~PyEq(Get(reader.records[i], 0), call.value))
          => result = RetNone
       /\ (call.op = "query"
             /\ \A i \in 1..Len(reader.records) :
                   ~MatchesAll(reader.records[i], PairsOf(call.filter)))
          => result = Ret("list", <<>>)

\* The calls that look records or metadata up.
LookupOps == {"get_record", "get_record_by_id", "query", "get_info"}

\* C14: once read() has returned True, a get_record, get_record_by_id, query
\* or get_info call changes neither the header fields, the data bytes, the
\* string table and the records of the reader nor its format string.
C14_LookupsFrame ==
    [][(Loaded /\ call'.op \in LookupOps)
        => (reader' = reader /\ format_string' = format_string)]_vars

\* C14 witness: a projecting query has answered on a loaded table of two
\* rows and returned something else than the records themselves.
C14_Witness ==
    /\ Loaded
    /\ call.op = "query"
    /\ Len(reader.records) >= 2
    /\ result.val # <<>>
    /\ result.val # reader.records

\* The filter {0: X}.
FieldZeroIs(X) == <<<<<<0, X>>>>>>

\* C15: on a loaded reader, get_record_by_id(X) and query({0: X}, None)
\* agree for every X: the lookup returns None iff the query returns the
\* empty list, and otherwise returns the first element of the query's list.
C15_ByKeyIsFirstOfQuery ==
    /\ (Loaded /\ call.op = "get_record_by_id")
        => LET q == query(reader.records, FieldZeroIs(call.value), <<>>).val
           IN  result = IF q = <<>> THEN RetNone ELSE Ret("record", <<q[1]>>)
    /\ (Loaded /\ call.op = "query" /\ call.columns = <<>>
          /\ \E X \in KeyValues : call.filter = FieldZeroIs(X))
        => LET r == get_record_by_id(reader.records, call.filter[1][1][2])
           IN  IF result.val = <<>> THEN r = RetNone
               ELSE r = Ret("record", <<result.val[1]>>)

\* C15 witness: the lookup returned a record for a value that the query
\* finds in two different records.
C15_Witness ==
    /\ Loaded
    /\ call.op = "get_record_by_id"
    /\ result.kind = "record"
    /\ LET q == query(reader.records, FieldZeroIs(call.value), <<>>).val
       IN  Len(q) >= 2 /\ q[1] # q[2]

-----------------------------------------------------------------------------
(* Claims about _read_string. *)

\* The UTF-8 bytes of one code point.
Utf8Bytes(cp) ==
    IF cp < 128 THEN <<cp>>
    ELSE IF cp < 2048 THEN <<192 + (cp \div 64), 128 + (cp % 64)>>
    ELSE IF cp < 65536
    THEN <<224 + (cp \div 4096), 128 + ((cp \div 64) % 64), 128 + (cp % 64)>>
    ELSE <<240 + (cp \div 262144), 128 + ((cp \div 4096) % 64),
           128 + ((cp \div 64) % 64), 128 + (cp % 64)>>

\* The text s is the bytes b read as UTF-8 or read as latin-1.
TextOfBytes(s, b) ==
    \/ Flatten([i \in 1..Len(s) |-> Utf8Bytes(s[i])]) = b
    \/ s = b

\* The 0-based index of the first zero byte of t at or after o, Len(t) when
\* there is none.
TerminatorFrom(t, o) ==
    CHOOSE e \in o..Len(t) :
        /\ e = Len(t) \/ t[e + 1] = 0
        /\ \A j \in o..(e - 1) : t[j + 1] # 0

\* C10: _read_string(o) raises nothing; it returns the empty string when o
\* is at or past the end of the table, and otherwise the text of exactly
\* the bytes from o up to the next zero byte or the end of the table.
C10_ReadString ==
    call.op = "read_string"
    => LET t == reader.string_table[1]
           o == call.offset
       IN  /\ result.kind = "str"
           /\ IF o >= Len(t) THEN result.val = <<>>
              ELSE LET e == TerminatorFrom(t, o)
                   IN  TextOfBytes(result.val, [i \in 1..(e - o) |-> t[o + i]])

\* C10 witness: a string read at an offset past 0 whose bytes are not UTF-8
\* and run to the end of the table.
C10_Witness ==
    /\ call.op = "read_string"
    /\ call.offset > 0
    /\ result.kind = "str"
    /\ \E i \in 1..Len(result.val) : result.val[i] = 195
    /\ \A i \in 1..Len(reader.string_table[1]) : reader.string_table[1][i] # 0

-----------------------------------------------------------------------------
(* Claims about get_format. *)

\* The catalog keys the fallback chain names for a requested name, in the
\* order of the rules: the override table's key (the name itself without an
\* override), the name, the name without a trailing "fmt", the name with
\* "Entry", the name with "fmt".
CandidateKeys(N) ==
    <<IF N \in DOMAIN DBC_NAME_MAP THEN DBC_NAME_MAP[N] ELSE N, N>>
        \o (IF EndsWith(N, "fmt") THEN <<DropLast(N, 3)>> ELSE <<>>)
        \o <<N \o "Entry", N \o "fmt">>

\* The positions of the candidate keys the catalog holds.
PresentKeys(N, fs) == {i \in 1..Len(CandidateKeys(N)) : CandidateKeys(N)[i] \in DOMAIN fs}

\* C11: get_format(N) returns the format string of the first candidate key,
\* in the order of the five rules, that the catalog holds, and returns None
\* only when the catalog holds none of the candidate keys.
C11_ResolveFirstRule ==
    call.op = "get_format" =>
        LET present == PresentKeys(call.name, formats)
            first == CHOOSE i \in present : \A j \in present : i <= j
        IN  IF present = {} THEN result = RetNone
            ELSE result = Ret("str", formats[CandidateKeys(call.name)[first]])

\* C12: when the catalog holds K = N + "Entry", and either DBC_NAME_MAP
\* maps N to K, or it has no entry for N and N is not a catalog key, then
\* get_format(N) returns a format string, the one get_format(K) returns.
C12_EntrySuffix ==
    LET N == call.name
        K == N \o "Entry"
    IN  (/\ call.op = "get_format"
         /\ K \in DOMAIN formats
         /\ IF N \in DOMAIN DBC_NAME_MAP THEN DBC_NAME_MAP[N] = K
            ELSE N \notin DOMAIN formats)
        => /\ result.kind = "str"
           /\ <<result.val>> = get_format(formats, dbcfmt, K).ret

-----------------------------------------------------------------------------
(* Claims about the sizes and the decoding of a format string. *)

\* C16: for every format string of the nine format characters,
\* get_record_size returns the sum of the widths of its characters (1 for b
\* and X, 4 for the others) and get_field_count returns its length.
C16_SizeAndCount ==
    /\ call.op = "get_record_size"
        => result = Ret("int", <<WidthSum(format_string)>>)
    /\ call.op = "get_field_count"
        => result = Ret("int", <<Len(format_string)>>)

\* C16 witness: the size of a format string that holds a one-byte field, a
\* one-byte padding and a four-byte field has been asked for.
C16_Witness ==
    /\ call.op = "get_record_size"
    /\ \E i, j, k \in 1..Len(format_string) :
         format_string[i] = "b" /\ format_string[j] = "X" /\ format_string[k] \in {"n", "s"}
    /\ result.val[1] = 6

\* C17: when the format string is well-formed and the data section holds
\* record_count rows of exactly the format's record size, every row is
\* decoded, the last one included: no read of read() leaves the data section.
C17_DecodeTotal ==
    (/\ ReadCalled
     /\ path_exists
     /\ HasHeader
     /\ FileMagic = WDBC_SIGNATURE
     /\ FileFieldCount = Len(format_string)
     /\ WellFormed(format_string)
     /\ FileRecordSize = WidthSum(format_string)
     /\ ~Truncated)
    => /\ outcome = "True"
       /\ Len(reader.records) = FileRecordCount

\* C17 witness: two rows that end in a four-byte field after a one-byte
\* field have been decoded, the data section ending with the last row.
C17_Witness ==
    /\ outcome = "True"
    /\ Len(format_string) >= 2
    /\ format_string[Len(format_string) - 1] \in {"b", "X"}
    /\ format_string[Len(format_string)] \in {"i", "f", "s"}
    /\ FileRecordSize = WidthSum(format_string)
    /\ Len(reader.records) >= 2
    /\ Len(reader.data[1]) = 2 * FileRecordSize

\* The bytes of row i (from 1) of the data section read.
RowOf(i) ==
    Slice(reader.data[1], (i - 1) * reader.record_size, i * reader.record_size)

\* C18: decoding is deterministic.  A read() of a loaded reader, the file
\* being unchanged, ends in the same reader with the same records; and in
\* a loaded reader two rows of the same bytes have identical records.
C18_DecodeDeterministic ==
    [][/\ (Loaded /\ call'.op = "read")
           => (outcome' = "True" /\ reader' = reader)
       /\ Loaded
           => \A i, j \in 1..Len(reader.records) :
                 RowOf(i) = RowOf(j) => reader.records[i] = reader.records[j]]_vars

\* C18 witness: read() has decoded two rows of the same bytes, whose string
\* field reads "A" from the string table.
C18_Witness ==
    /\ Loaded
    /\ call.op = "read"
    /\ Len(reader.records) >= 2
    /\ RowOf(1) = RowOf(2)
    /\ \E k \in DOMAIN reader.records[1] : reader.records[1][k] = StrV(<<65>>)

-----------------------------------------------------------------------------
(* Claims about _query_dbc. *)

\* A filtered query: neither info nor id nor row_index is asked for.
FilteredQuery(args) == args.info # <<TRUE>> /\ args.id = <<>> /\ args.row_index = <<>>

\* The records the reader's query returns for the arguments of a request
\* whose filter keys are numbers.
Matching(args) ==
    query(reader.records,
          IF args.filter = <<>> THEN <<>> ELSE <<ConvertFilter(args.filter[1], 1, <<>>).items>>,
          args.columns).val

\* C19: a filtered query_dbc request with a numeric limit (100 when
\* omitted) returns at most min(limit, 1000) records, count is the number of
\* records returned, and truncated is true iff more records match than the
\* effective limit min(limit, 1000).
C19_LimitRespected ==
    (/\ call.op = "query_dbc"
     /\ FilteredQuery(call.args[1])
     /\ call.args[1].filter # <<>> => ConvertFilter(call.args[1].filter[1], 1, <<>>).ok)
    => LET args == call.args[1]
           effective == CapLimit(IF args.limit = <<>> THEN IntV(DefaultLimit)
                                 ELSE args.limit[1])
       IN  /\ result.kind = "dict"
           /\ ~LenExceeds(Len(result.val[1].result), effective)
           /\ result.val[1].count = <<Len(result.val[1].result)>>
           /\ result.val[1].truncated = <<LenExceeds(Len(Matching(args)), effective)>>

\* The number whose little-endian bytes are w.
RECURSIVE LittleEndian(_)
LittleEndian(w) == IF w = <<>> THEN 0 ELSE Head(w) + 256 * LittleEndian(Tail(w))

\* The value of a field of kind c whose bytes in the data section are w.
FieldValue(c, w) ==
    CASE c \in {"i", "n", "d", "l", "b"} -> IntV(LittleEndian(w))
      [] c = "f" -> FloatV(w)
      [] c = "s" -> StrV(read_string(reader.string_table[1], LittleEndian(w)).s)
      [] OTHER -> NoneV

\* C20: in a loaded reader of a well-formed format string of length n, the
\* record of the row at byte offset r has exactly the keys 0..n-1; field k
\* is what the bytes at r + (sum of the widths of fields 0..k-1) hold, read
\* little-endian over the width of its kind; a padding field holds None at
\* its index and takes its width, so that the fields after it stay aligned.
C20_FieldOffsets ==
    (Loaded /\ WellFormed(format_string))
    => \A row \in 1..Len(reader.records) :
          LET r == (row - 1) * reader.record_size
              n == Len(format_string)
          IN  /\ DOMAIN reader.records[row] = 0..(n - 1)
              /\ \A k \in 0..(n - 1) :
                    LET at == r + WidthSum(SubSeq(format_string, 1, k))
                        c == format_string[k + 1]
                    IN  reader.records[row][k] =
                            FieldValue(c, Slice(reader.data[1], at, at + FieldWidth(c)))

\* C20 witness: two rows have been decoded in which a number follows a
\* padding field and differs from one row to the other.
C20_Witness ==
    /\ Loaded
    /\ Len(reader.records) >= 2
    /\ \E k \in 1..(Len(format_string) - 1) :
         /\ format_string[k] \in {"x", "X"}
         /\ format_string[k + 1] \in {"i", "n", "d", "l", "b"}
         /\ reader.records[1][k - 1] = NoneV
         /\ reader.records[1][k] # reader.records[2][k]


-----------------------------------------------------------------------------
(* Claims about filters on fields a record does not have. *)

\* Some pair of the filter names a field the record has no key for and a
\* value other than None.
LacksFiltered(record, pairs) ==
    \E j \in 1..Len(pairs) :
        pairs[j][1] \notin DOMAIN record /\ pairs[j][2] # NoneV

\* C25: on a loaded reader, a filter pair (k, v) whose field index k is not
\* a key of a record, v being any value other than None, keeps that record
\* out of the result of query: no more records are returned than have all
\* the filtered fields, a returned whole record has them all, and when k is
\* at or above the header's field_count nothing at all is returned.
C25_MissingFieldExcludes ==
    (Loaded /\ call.op = "query" /\ call.filter # <<>>)
    => LET pairs == call.filter[1]
           having == {i \in 1..Len(reader.records) :
                         ~LacksFiltered(reader.records[i], pairs)}
       IN  /\ result.kind = "list"
           /\ Len(result.val) <= Cardinality(having)
           /\ ~Truthy(call.columns)
               => \A n \in 1..Len(result.val) : ~LacksFiltered(result.val[n], pairs)
           /\ (\E j \in 1..Len(pairs) : /\ pairs[j][1] >= reader.field_count
                                        /\ pairs[j][2] # NoneV)
               => result.val = <<>>

\* C25 witness: a query whose filter asks for the value field 0 of the first
\* record holds and for a number in a field beyond the field count has
\* returned nothing from a table with records.
C25_Witness ==
    /\ Loaded
    /\ call.op = "query"
    /\ reader.records # <<>>
    /\ call.filter # <<>>
    /\ Len(call.filter[1]) = 2
    /\ call.filter[1][1][1] = 0
    /\ PyEq(Get(reader.records[1], 0), call.filter[1][1][2])
    /\ call.filter[1][2][1] >= reader.field_count
    /\ call.filter[1][2][2].t = "int"
    /\ result = Ret("list", <<>>)

-----------------------------------------------------------------------------
(* Claims about the shape of a loaded reader. *)

\* C22: in a reader whose read() returned True, there are as many records as
\* the header's record_count, the header's field_count is the length of the
\* format string, and record i (from 0) is what the bytes of the data
\* section from offset i * record_size on decode to, record_size being the
\* header's.
C22_LoadedShape ==
    Loaded
    => /\ Len(reader.records) = FileRecordCount
       /\ reader.record_count = FileRecordCount
       /\ FileFieldCount = Len(format_string)
       /\ reader.field_count = Len(format_string)
       /\ \A i \in 0..(FileRecordCount - 1) :
             LET decoded == parse_record(reader.data[1], reader.string_table[1],
                                         format_string, i * FileRecordSize)
             IN  decoded.ok /\ reader.records[i + 1] = decoded.record

\* C22 witness: two rows were decoded under a header whose record_size is
\* one more than the format's size, and their records differ.
C22_Witness ==
    /\ Loaded
    /\ Len(reader.records) = 2
    /\ FileRecordSize = get_record_size(format_string) + 1
    /\ reader.records[1] # reader.records[2]

\* C23: a reader whose read() raised or returned False holds no records,
\* whatever made it fail: get_record returns None, get_record_by_id returns
\* None and query returns [], no row decoded before the failure being left
\* in the reader.
C23_FailedHoldsNothing ==
    (ReadCalled /\ ~Loaded)
    => /\ reader.records = <<>>
       /\ get_record(reader.records, IntV(0)) = RetNone
       /\ \A v \in {IntV(0), IntV(2)} : get_record_by_id(reader.records, v) = RetNone
       /\ query(reader.records, <<>>, <<>>) = Ret("list", <<>>)

-----------------------------------------------------------------------------
(* Claims about loading a table by name. *)

\* A reader whose read() went through every step: the signature was read and
\* is WDBC, the field count is the format's, both sections were read and
\* every row of the header's count was decoded.
WentThrough(held) ==
    /\ held.reader.signature = <<WDBC_SIGNATURE>>
    /\ held.reader.field_count = Len(held.format_string)
    /\ held.reader.data # <<>>
    /\ held.reader.string_table # <<>>
    /\ Len(held.reader.records) = held.reader.record_count

\* C21: an attempt to load a table ends in one of two ways: the caller is
\* handed a reader whose read() passed every validation step and decoded all
\* the rows, or the caller is handed an exception.  A header shorter than 20
\* bytes, a bad signature and a field-count mismatch all end the second way.
C21_LoadedOrFailed ==
    call.op = "load_dbc" =>
        \/ result.kind = "raise"
        \/ result.kind = "reader" /\ WentThrough(result.val[1])

\* C24: after any sequence of _load_dbc calls every reader in the cache is
\* one whose read() succeeded; a _load_dbc that fails inserts nothing; and a
\* _load_dbc of a cached name returns the cached reader, builds no reader
\* and reads no file.
C24_CacheHoldsLoaded ==
    [][/\ \A n \in DOMAIN dbc_cache' : WentThrough(dbc_cache'[n])
       /\ (call'.op = "load_dbc" /\ result'.kind = "raise")
           => dbc_cache' = dbc_cache
       /\ (call'.op = "load_dbc" /\ call'.name \in DOMAIN dbc_cache)
           => /\ result' = Ret("reader", <<dbc_cache[call'.name]>>)
              /\ UNCHANGED <<dbc_cache, reader, outcome>>]_vars

-----------------------------------------------------------------------------
(* Claims about the request loop. *)

\* C26: in the loop of run, every line read from stdin (each is non-empty:
\* it holds at least its newline) has exactly one response line written to
\* stdout before the next line is read: a result for the methods
\* initialize, tools/list and tools/call, the error -32601 for another
\* method, the error -32700 (with a null id) for a line that is not valid
\* JSON; reading a line writes nothing; and the end of the input ends the
\* loop.
C26_OneResponsePerLine ==
    [][/\ pc = "handle"
           => /\ Len(stdout') = Len(stdout) + 1
              /\ SubSeq(stdout', 1, Len(stdout)) = stdout
              /\ LET parsed == json_loads(call.name)
                     response == stdout'[Len(stdout')]
                 IN  IF ~parsed.ok
                     THEN response = Reply(<<>>, "error", Ret("int", <<ParseError>>))
                     ELSE parsed.value.t = "object"
                          => /\ response.id = parsed.value.id
                             /\ IF parsed.value.method \in
                                      {<<"initialize">>, <<"tools/list">>, <<"tools/call">>}
                                THEN response.kind = "result"
                                ELSE /\ response.kind = "error"
                                     /\ response.body = Ret("int", <<MethodNotFound>>)
       /\ pc = "readline"
           => /\ stdout' = stdout
              /\ stdin = <<>> => pc' = "done"
              /\ stdin # <<>> => pc' = "handle" /\ stdin' = Tail(stdin)]_vars
=============================================================================
